---- MODULE Spec2Model ----
(***************************************************************************)
(* A model of mapsDB.py: the Overpass query client with mirror failover    *)
(* (query_overpass_with_mirrors), the element aggregator                   *)
(* (dedupe_elements), the record normalizer (extract_shop_record), the     *)
(* tile partitioner (split_bbox), the geocoding lookup (nominatim_bbox)    *)
(* and the per-city / per-run orchestration (process_city, main).          *)
(*                                                                         *)
(* The specifications share the variables:                                 *)
(*   Spec         - a whole run of main()                                  *)
(*   SpecQuery    - one call of query_overpass_with_mirrors                *)
(*   SpecDedupe   - one call of dedupe_elements on a bounded input list    *)
(*   SpecSplit    - one call of split_bbox                                 *)
(*   SpecExtract  - one call of extract_shop_record                        *)
(*   SpecScenario - a run of main() on one region split 2x2                *)
(*   SpecResume   - successive runs of main() on one output directory      *)
(***************************************************************************)
EXTENDS Integers, Sequences, FiniteSets, TLC

VARIABLES
    \* ---- configuration and environment (fixed during a run) ----
    TILE_NX, TILE_NY,      \* grid dimensions (module globals, lines 71-72)
    FORCE_REWRITE,         \* module global, line 86
    citiesFile,            \* content of iran_cities.txt, or NoFile
    served,                \* the JSON bodies the Overpass mirrors may answer with
    \* ---- main() ----
    mpc,                   \* position of main
    cities,                \* the list load_cities returned
    ci,                    \* 1-based index of the city being processed
    processed,             \* history: cities handed to process_city, in order
    files,                 \* the paths that exist under OUT_DIR
    \* ---- process_city() ----
    cpc,                   \* position / terminal state of process_city
    bbox,                  \* (s, w, n, e) of the resolved region
    tiles,                 \* split_bbox(bbox, TILE_NX, TILE_NY)
    idx,                   \* 0-based index of the tile being fetched
    all_elements,
    failed_tiles,
    records,
    geoRequests,           \* history: status of each geocoding GET sent for this city
    tileLog,               \* history: per started tile, "ok" / "failed"
    tilePauses,            \* history: sleeps of SLEEP_BETWEEN_TILES, this city
    written,               \* history: files written by this call, with payload
    \* ---- query_overpass_with_mirrors() ----
    qpc,                   \* "idle" | "running" | "returned" | "raised"
    query_body,
    mirror,                \* 1-based index into OVERPASS_MIRRORS
    attempt,
    last_exc,
    result,                \* the value returned (r.json())
    cause,                 \* __cause__ of the RuntimeError raised
    reqCount,              \* history: POSTs sent to each mirror in this call
    failCount,             \* history: failed attempts on each mirror
    received,              \* history: successful responses delivered by mirrors
    sleeps,                \* history: backoff sleeps of this call, in order
    \* ---- dedupe_elements() called on its own ----
    dpc, dd_in, dd_out,
    \* ---- split_bbox() called on its own ----
    sp_pc, sp_in, sp_out,
    \* ---- extract_shop_record() called on its own ----
    ex_pc, ex_in, ex_out,
    \* ---- successive runs of the program on one output directory ----
    run,                   \* number of the current run of main()
    regionLog              \* history: per output name, how its last processing ended

cfgVars   == <<TILE_NX, TILE_NY, FORCE_REWRITE, citiesFile, served>>
mainVars  == <<mpc, cities, ci, processed, files>>
cityVars  == <<cpc, bbox, tiles, idx, all_elements, failed_tiles, records,
               geoRequests, tileLog, tilePauses, written>>
queryVars == <<qpc, query_body, mirror, attempt, last_exc, result, cause,
               reqCount, failCount, received, sleeps>>
ddVars    == <<dpc, dd_in, dd_out>>
pureVars  == <<sp_pc, sp_in, sp_out, ex_pc, ex_in, ex_out>>
runVars   == <<run, regionLog>>
vars      == <<cfgVars, mainVars, cityVars, queryVars, ddVars, pureVars, runVars>>

(***************************************************************************)
(* Bounds of the model                                                     *)
(***************************************************************************)
\* the grids explored are those with TILE_NX * TILE_NY <= MaxTiles
MaxTiles == 4
\* longest input list handed to dedupe_elements in SpecDedupe
MaxLen == 3
\* largest grid dimension handed to split_bbox in SpecSplit
MaxDim == 3
\* number of runs of main() on the same output directory
MaxRuns == 3

(***************************************************************************)
(* Program constants                                                       *)
(***************************************************************************)
NumMirrors  == 4
Mirrors     == 1..NumMirrors
MAX_RETRIES == 3
BACKOFF_BASE == 2
SLEEP_BETWEEN_TILES == 1

(***************************************************************************)
(* Data: raw elements and the responses a mirror may deliver               *)
(***************************************************************************)
\* Python's dict.get(key, default)
DictGet(d, k, default) == IF k \in DOMAIN d THEN d[k] ELSE default

\* a tag bag: a function from tag names to string values
Tags1 == ("name" :> "Bazar") @@ ("phone" :> "A") @@ ("addr:full" :> "Qom, Main St")
Tags2 == ("name" :> "Bazaar") @@ ("contact:phone" :> "B") @@ ("phone" :> "A")
           @@ ("addr:street" :> "Main St") @@ ("addr:city" :> "Qom")
Tags3 == ("name" :> "") @@ ("website" :> "w.ir") @@ ("contact:website" :> "c.ir")
           @@ ("email" :> "e@x.ir") @@ ("addr:housenumber" :> "12")

\* two copies of the same entity (node, 555) whose tags drifted between
\* fetches, a way that shares the numeric id, and an entity without tags
ElemA1 == [type |-> "node", id |-> 555, tags |-> Tags1]
ElemA2 == [type |-> "node", id |-> 555, tags |-> Tags2]
ElemB  == [type |-> "way", id |-> 555, tags |-> Tags3]
ElemC  == [type |-> "node", id |-> 7]
Elements == {ElemA1, ElemA2, ElemB, ElemC}

\* JSON bodies of successful Overpass responses
Responses == { [elements |-> <<>>],
               [elements |-> <<ElemA1>>],
               [elements |-> <<ElemB, ElemA2>>] }

(***************************************************************************)
(* query_overpass_with_mirrors                                             *)
(***************************************************************************)
NoExc == [kind |-> "None", mirror |-> 0, attempt |-> 0]
NoResult == [none |-> TRUE]

\* the two nested for-loops: the position after a failed attempt
NextAttemptRoundRobin(m, a, max_retries) ==
    IF m < NumMirrors THEN <<m + 1, a>> ELSE <<1, a + 1>>
NextAttempt(m, a, max_retries) ==
    IF a < max_retries THEN <<m, a + 1>> ELSE <<m + 1, 1>>

\* `return r.json()`: the call ends with the body of the response
ContinueOnSuccess(data) == [qpc |-> "running", result |-> data]
ReturnOnSuccess(data) == [qpc |-> "returned", result |-> data]

\* `last_exc = he` / `last_exc = e`
RecordFirstExc(prev, e) == IF prev = NoExc THEN e ELSE prev
RecordExc(prev, e) == e

\* time.sleep(BACKOFF_BASE ** attempt)
Backoff(a) == BACKOFF_BASE ^ a

ZeroCounts == [m \in Mirrors |-> 0]

RECURSIVE SumCounts(_, _)
SumCounts(f, m) == IF m = 0 THEN 0 ELSE f[m] + SumCounts(f, m - 1)
TotalRequests == SumCounts(reqCount, NumMirrors)
TotalFailures == SumCounts(failCount, NumMirrors)

\* entry of the function: line 145-148
QueryCallState(body) ==
    /\ qpc' = "running"
    /\ query_body' = body
    /\ mirror' = 1
    /\ attempt' = 1
    /\ last_exc' = NoExc
    /\ result' = NoResult
    /\ cause' = NoExc
    /\ reqCount' = ZeroCounts
    /\ failCount' = ZeroCounts
    /\ received' = <<>>
    /\ sleeps' = <<>>

\* the frame of a finished call is dropped by the caller
QueryIdle ==
    /\ qpc = "idle"
    /\ query_body = <<>>
    /\ mirror = 1
    /\ attempt = 1
    /\ last_exc = NoExc
    /\ result = NoResult
    /\ cause = NoExc
    /\ reqCount = ZeroCounts
    /\ failCount = ZeroCounts
    /\ received = <<>>
    /\ sleeps = <<>>

QueryDropFrame ==
    /\ qpc' = "idle"
    /\ query_body' = <<>>
    /\ mirror' = 1
    /\ attempt' = 1
    /\ last_exc' = NoExc
    /\ result' = NoResult
    /\ cause' = NoExc
    /\ reqCount' = ZeroCounts
    /\ failCount' = ZeroCounts
    /\ received' = <<>>
    /\ sleeps' = <<>>

\* lines 150-154: the POST succeeds, raise_for_status passes, r.json() is returned
AttemptSucceeds ==
    /\ qpc = "running"
    /\ mirror <= NumMirrors
    /\ \E data \in served :
         LET after == ReturnOnSuccess(data)
             pos   == NextAttempt(mirror, attempt, MAX_RETRIES) IN
         /\ reqCount' = [reqCount EXCEPT ![mirror] = @ + 1]
         /\ received' = Append(received, [mirror |-> mirror, attempt |-> attempt, data |-> data])
         /\ qpc' = after.qpc
         /\ result' = after.result
         /\ IF after.qpc = "running"
              THEN mirror' = pos[1] /\ attempt' = pos[2] /\ UNCHANGED last_exc
              ELSE UNCHANGED <<mirror, attempt>> /\ last_exc' = NoExc
    /\ UNCHANGED <<query_body, cause, failCount, sleeps>>
    /\ UNCHANGED <<cfgVars, mainVars, cityVars, ddVars, pureVars, runVars>>

\* lines 150-163 on an error: record the exception, sleep, go on with the loops
AttemptFails(kind) ==
    /\ qpc = "running"
    /\ mirror <= NumMirrors
    /\ LET pos == NextAttempt(mirror, attempt, MAX_RETRIES) IN
         /\ reqCount' = [reqCount EXCEPT ![mirror] = @ + 1]
         /\ failCount' = [failCount EXCEPT ![mirror] = @ + 1]
         /\ last_exc' = RecordExc(last_exc, [kind |-> kind, mirror |-> mirror, attempt |-> attempt])
         /\ sleeps' = Append(sleeps, Backoff(attempt))
         /\ mirror' = pos[1]
         /\ attempt' = pos[2]
    /\ UNCHANGED <<qpc, query_body, result, cause, received>>
    /\ UNCHANGED <<cfgVars, mainVars, cityVars, ddVars, pureVars, runVars>>

\* except requests.exceptions.HTTPError (lines 155-158)
AttemptHTTPError == AttemptFails("HTTPError")
\* except requests.exceptions.RequestException (lines 159-161)
AttemptRequestError == AttemptFails("RequestException")

\* line 165: both loops are over
AllMirrorsFailed ==
    /\ qpc = "running"
    /\ mirror > NumMirrors
    /\ qpc' = "raised"
    /\ cause' = last_exc
    /\ UNCHANGED <<query_body, mirror, attempt, last_exc, result, reqCount,
                   failCount, received, sleeps>>
    /\ UNCHANGED <<cfgVars, mainVars, cityVars, ddVars, pureVars, runVars>>

(***************************************************************************)
(* dedupe_elements                                                         *)
(***************************************************************************)
\* key = (el.get("type"), el.get("id"))
ElemKey(el) == <<el.type, el.id>>

RECURSIVE DedupeScan(_, _, _)
DedupeScan(elems, seen, out) ==
    IF elems = <<>> THEN out
    ELSE LET el == Head(elems)
             key == ElemKey(el) IN
         IF key \in seen
           THEN DedupeScan(Tail(elems), seen, out)
           ELSE DedupeScan(Tail(elems), seen \cup {key}, Append(out, el))

RECURSIVE DedupeKeepLast(_)
DedupeKeepLast(elems) ==
    IF elems = <<>> THEN <<>>
    ELSE LET el == Head(elems)
             rest == Tail(elems) IN
         IF \E i \in 1..Len(rest) : ElemKey(rest[i]) = ElemKey(el)
           THEN DedupeKeepLast(rest)
           ELSE <<el>> \o DedupeKeepLast(rest)

dedupe_elements(elems) == DedupeScan(elems, {}, <<>>)

(***************************************************************************)
(* Numbers: exact rationals <<numerator, denominator>>, denominator > 0,   *)
(* kept in lowest terms, stand for the floats of the program               *)
(***************************************************************************)
Abs(n) == IF n < 0 THEN -n ELSE n

RECURSIVE GCD(_, _)
GCD(a, b) == IF b = 0 THEN a ELSE GCD(b, a % b)

Norm(n, d) ==
    LET sn == IF d < 0 THEN -n ELSE n
        sd == Abs(d)
        g  == GCD(Abs(sn), sd) IN
    <<sn \div g, sd \div g>>

RAdd(a, b) == Norm(a[1] * b[2] + b[1] * a[2], a[2] * b[2])
RSub(a, b) == Norm(a[1] * b[2] - b[1] * a[2], a[2] * b[2])
RMulInt(a, k) == Norm(a[1] * k, a[2])
RDivInt(a, k) == Norm(a[1], a[2] * k)
\* float(text) for a text of decimal digits with at most one "."
DigitVal(c) ==
    CASE c = "0" -> 0 [] c = "1" -> 1 [] c = "2" -> 2 [] c = "3" -> 3
      [] c = "4" -> 4 [] c = "5" -> 5 [] c = "6" -> 6 [] c = "7" -> 7
      [] c = "8" -> 8 [] c = "9" -> 9

RECURSIVE ParseDigits(_, _, _, _)
ParseDigits(text, num, den, afterPoint) ==
    IF text = <<>> THEN Norm(num, den)
    ELSE IF Head(text) = "."
           THEN ParseDigits(Tail(text), num, den, TRUE)
           ELSE ParseDigits(Tail(text), num * 10 + DigitVal(Head(text)),
                            IF afterPoint THEN den * 10 ELSE den, afterPoint)

ParseFloat(text) == ParseDigits(text, 0, 1, FALSE)

(***************************************************************************)
(* nominatim_bbox                                                          *)
(***************************************************************************)
\* entries of the JSON list the geocoder answers with;
\* boundingbox is [south, north, west, east] as numeric strings
Match1 == [boundingbox |-> << <<"3","4",".","5">>, <<"3","4",".","7">>,
                              <<"5","0",".","7">>, <<"5","0",".","9">> >>,
           display_name |-> "Qom, Iran"]
Match2 == [boundingbox |-> << <<"1","0">>, <<"1","2">>, <<"2","0">>, <<"2","4">> >>,
           display_name |-> "Qom (county)"]

\* what the lookup can come back with: a JSON list, or an exception raised
\* by requests.get / raise_for_status
GeoOutcomes == { [raised |-> TRUE,  j |-> <<>>],
                 [raised |-> FALSE, j |-> <<>>],
                 [raised |-> FALSE, j |-> <<Match1>>],
                 [raised |-> FALSE, j |-> <<Match1, Match2>>] }

NoBbox == <<>>

\* lines 109-117; the value is [status, bbox, display_name] with status
\* "raised" (exception), "none" (returns None) or "ok"
nominatim_bbox(outcome) ==
    IF outcome.raised THEN [status |-> "raised", bbox |-> NoBbox, display_name |-> ""]
    ELSE IF outcome.j = <<>> THEN [status |-> "none", bbox |-> NoBbox, display_name |-> ""]
    ELSE LET bb == outcome.j[1].boundingbox
             south == ParseFloat(bb[1])
             north == ParseFloat(bb[2])
             west  == ParseFloat(bb[3])
             east  == ParseFloat(bb[4]) IN
         [status |-> "ok",
          bbox |-> <<south, west, north, east>>,
          display_name |-> DictGet(outcome.j[1], "display_name", "")]

(***************************************************************************)
(* split_bbox                                                              *)
(***************************************************************************)
\* tile number k (1-based) of the row-major double loop over i, j
TileAtColumnMajor(b, nx, ny, k) ==
    LET south == b[1]
        west  == b[2]
        north == b[3]
        east  == b[4]
        lat_step == RDivInt(RSub(north, south), ny)
        lon_step == RDivInt(RSub(east, west), nx)
        i == (k - 1) % ny
        j == (k - 1) \div ny IN
    << RAdd(south, RMulInt(lat_step, i)),
       RAdd(west, RMulInt(lon_step, j)),
       RAdd(south, RMulInt(lat_step, i + 1)),
       RAdd(west, RMulInt(lon_step, j + 1)) >>
TileAt(b, nx, ny, k) ==
    LET south == b[1]
        west  == b[2]
        north == b[3]
        east  == b[4]
        lat_step == RDivInt(RSub(north, south), ny)
        lon_step == RDivInt(RSub(east, west), nx)
        i == (k - 1) \div nx
        j == (k - 1) % nx IN
    << RAdd(south, RMulInt(lat_step, i)),
       RAdd(west, RMulInt(lon_step, j)),
       RAdd(south, RMulInt(lat_step, i + 1)),
       RAdd(west, RMulInt(lon_step, j + 1)) >>

\* range(ny) x range(nx): the loops run only for positive dimensions
TileCount(nx, ny) == IF nx > 0 /\ ny > 0 THEN nx * ny ELSE 0

\* lines 121-122: the divisions raise ZeroDivisionError for a dimension of 0
SplitRaises(nx, ny) == ny = 0 \/ nx = 0

\* lines 119-131, the list returned when no division raises
split_bbox(b, nx, ny) == [k \in 1..TileCount(nx, ny) |-> TileAt(b, nx, ny, k)]

\* a call of split_bbox: the list, or the exception
split_bbox_call(b, nx, ny) ==
    IF SplitRaises(nx, ny)
      THEN [raised |-> TRUE, error |-> "ZeroDivisionError", boxes |-> <<>>]
      ELSE [raised |-> FALSE, error |-> "", boxes |-> split_bbox(b, nx, ny)]

(***************************************************************************)
(* sanitize_filename, load_cities: names are sequences of characters       *)
(***************************************************************************)
Whitespace == {" ", "\t", "\n"}
BadChars == {"\\", "/", ":", "\"", "*", "?", "<", ">", "|"}

RECURSIVE LStrip(_)
LStrip(t) == IF t # <<>> /\ Head(t) \in Whitespace THEN LStrip(Tail(t)) ELSE t

RECURSIVE RStrip(_)
RStrip(t) ==
    IF t # <<>> /\ t[Len(t)] \in Whitespace THEN RStrip(SubSeq(t, 1, Len(t) - 1)) ELSE t

\* str.strip()
Strip(t) == RStrip(LStrip(t))

\* re.sub(r'[\\/:"*?<>|]+', '_', name): every maximal run becomes one "_"
RECURSIVE SubBadRuns(_, _)
SubBadRuns(t, inRun) ==
    IF t = <<>> THEN <<>>
    ELSE IF Head(t) \in BadChars
           THEN (IF inRun THEN <<>> ELSE <<"_">>) \o SubBadRuns(Tail(t), TRUE)
           ELSE <<Head(t)>> \o SubBadRuns(Tail(t), FALSE)

\* lines 90-94
sanitize_filename(name) == SubBadRuns(Strip(name), FALSE)

\* os.path.join(OUT_DIR, f"{safe_name}.csv") and f"{safe_name}_raw.json"
OutPath(safe_name) == [dir |-> "output_csvs", name |-> safe_name, suffix |-> ".csv"]
DebugPath(safe_name) == [dir |-> "output_csvs", name |-> safe_name, suffix |-> "_raw.json"]

RECURSIVE StripNonEmpty(_)
StripNonEmpty(lines) ==
    IF lines = <<>> THEN <<>>
    ELSE IF Strip(Head(lines)) # <<>>
           THEN <<Strip(Head(lines))>> \o StripNonEmpty(Tail(lines))
           ELSE StripNonEmpty(Tail(lines))

\* lines 96-102.  DEFAULT_CITIES is defined nowhere in the module (the list
\* above it is named DEFAULT_PROVINCES), so the fallback raises NameError.
load_cities(file) ==
    LET listed == IF file.exists THEN StripNonEmpty(file.lines) ELSE <<>> IN
    IF listed # <<>>
      THEN [raised |-> FALSE, cities |-> listed]
      ELSE [raised |-> TRUE, cities |-> <<>>]

(***************************************************************************)
(* extract_shop_record                                                     *)
(***************************************************************************)
\* tags.get(k): an absent tag (None) and an empty value are both falsy
TagGet(tags, k) == DictGet(tags, k, "")

\* tags.get(k1) or tags.get(k2) or ... or ""
RECURSIVE FirstTruthyReversed(_, _)
FirstTruthyReversed(tags, keys) ==
    IF keys = <<>> THEN ""
    ELSE IF TagGet(tags, keys[Len(keys)]) # "" THEN TagGet(tags, keys[Len(keys)])
    ELSE FirstTruthyReversed(tags, SubSeq(keys, 1, Len(keys) - 1))

RECURSIVE FirstTruthy(_, _)
FirstTruthy(tags, keys) ==
    IF keys = <<>> THEN ""
    ELSE IF TagGet(tags, Head(keys)) # "" THEN TagGet(tags, Head(keys))
    ELSE FirstTruthy(tags, Tail(keys))

AddrKeys == <<"addr:street", "addr:housenumber", "addr:city", "addr:postcode", "addr:state">>

\* the loop of lines 185-188
RECURSIVE AddrPartsKeepEmpty(_, _)
AddrPartsKeepEmpty(tags, keys) ==
    IF keys = <<>> THEN <<>>
    ELSE (IF Head(keys) \in DOMAIN tags THEN <<tags[Head(keys)]>> ELSE <<>>)
         \o AddrPartsKeepEmpty(tags, Tail(keys))

RECURSIVE AddrParts(_, _)
AddrParts(tags, keys) ==
    IF keys = <<>> THEN <<>>
    ELSE (IF TagGet(tags, Head(keys)) # "" THEN <<TagGet(tags, Head(keys))>> ELSE <<>>)
         \o AddrParts(tags, Tail(keys))

\* ", ".join(parts)
RECURSIVE Join(_)
Join(parts) ==
    IF parts = <<>> THEN ""
    ELSE IF Len(parts) = 1 THEN parts[1]
    ELSE parts[1] \o ", " \o Join(Tail(parts))

\* lines 178-199
extract_shop_record(el, city_name) ==
    LET tags == DictGet(el, "tags", <<>>)
        addr_parts == AddrParts(tags, AddrKeys) IN
    [ city     |-> city_name,
      osm_type |-> el.type,
      osm_id   |-> el.id,
      name     |-> TagGet(tags, "name"),
      address  |-> IF addr_parts # <<>> THEN Join(addr_parts)
                   ELSE FirstTruthy(tags, <<"addr:full">>),
      phone    |-> FirstTruthy(tags, <<"contact:phone", "phone", "telephone">>),
      email    |-> FirstTruthy(tags, <<"contact:email", "email">>),
      website  |-> FirstTruthy(tags, <<"website", "contact:website">>) ]

\* [extract_shop_record(el, city_name) for el in all_elements]
ExtractAll(elems, city_name) ==
    [k \in 1..Len(elems) |-> extract_shop_record(elems[k], city_name)]

(***************************************************************************)
(* process_city                                                            *)
(***************************************************************************)
Terminal == {"Skipped", "Failed", "DoneEmpty", "Done", "Error"}

city_name == cities[ci]
safe_name == sanitize_filename(city_name)

CityIdle ==
    /\ cpc = "idle"
    /\ bbox = NoBbox
    /\ tiles = <<>>
    /\ idx = 0
    /\ all_elements = <<>>
    /\ failed_tiles = <<>>
    /\ records = <<>>
    /\ geoRequests = <<>>
    /\ tileLog = <<>>
    /\ tilePauses = <<>>
    /\ written = <<>>

\* lines 204-206: the resume check
SkipsAlways(path) == path \in files
SkipsIfAnyOutput(path) ==
    (path \in files \/ [path EXCEPT !.suffix = "_raw.json"] \in files) /\ ~FORCE_REWRITE
Skips(path) == path \in files /\ ~FORCE_REWRITE

\* main line 258 calls process_city; lines 202-206
BeginCity ==
    /\ mpc = "loop"
    /\ ci <= Len(cities)
    /\ cpc = "idle"
    /\ processed' = Append(processed, city_name)
    /\ cpc' = IF Skips(OutPath(safe_name)) THEN "Skipped" ELSE "resolve"
    /\ UNCHANGED <<mpc, cities, ci, files>>
    /\ UNCHANGED <<bbox, tiles, idx, all_elements, failed_tiles, records,
                   geoRequests, tileLog, tilePauses, written>>
    /\ UNCHANGED <<cfgVars, queryVars, ddVars, pureVars, runVars>>

\* what the try block of lines 209-212 ends in: unpacking None raises
\* TypeError, which the except clause catches like any request error
ResolvedRetry(r) == IF r.status = "ok" THEN "fetch" ELSE "resolve"
Resolved(r) == IF r.status = "ok" THEN "fetch" ELSE "Failed"

\* lines 209-220
Resolve ==
    /\ cpc = "resolve"
    /\ \E outcome \in GeoOutcomes :
         LET r == nominatim_bbox(outcome) IN
         /\ geoRequests' = Append(geoRequests, r.status)
         /\ cpc' = IF r.status = "ok" /\ SplitRaises(TILE_NX, TILE_NY)
                    THEN "Error" ELSE Resolved(r)
         /\ IF r.status = "ok"
              THEN /\ bbox' = r.bbox
                   /\ tiles' = split_bbox_call(r.bbox, TILE_NX, TILE_NY).boxes
              ELSE UNCHANGED <<bbox, tiles>>
    /\ UNCHANGED <<idx, all_elements, failed_tiles, records, tileLog, tilePauses, written>>
    /\ UNCHANGED <<cfgVars, mainVars, queryVars, ddVars, pureVars, runVars>>

\* lines 222-228: the next tile's query is built and the client is called
StartTile ==
    /\ cpc = "fetch"
    /\ idx < Len(tiles)
    /\ qpc = "idle"
    /\ QueryCallState(tiles[idx + 1])
    /\ cpc' = "query"
    /\ tileLog' = Append(tileLog, [idx |-> idx, outcome |-> "fetching", elems |-> <<>>])
    /\ UNCHANGED <<bbox, tiles, idx, all_elements, failed_tiles, records,
                   geoRequests, tilePauses, written>>
    /\ UNCHANGED <<cfgVars, mainVars, ddVars, pureVars, runVars>>

\* what the except clause of lines 232-234 leaves in failed_tiles
DropFailure(ft, i, tb) == ft
RecordFailure(ft, i, tb) ==
    Append(ft, [idx |-> i, bbox |-> tb, error |-> "All Overpass mirrors failed"])

\* line 235: time.sleep(SLEEP_BETWEEN_TILES) ends the loop body on both
\* paths of the try statement
PauseAfterOkOnly(pauses, outcome) ==
    IF outcome = "ok" THEN Append(pauses, SLEEP_BETWEEN_TILES) ELSE pauses
PauseAfter(pauses, outcome) == Append(pauses, SLEEP_BETWEEN_TILES)

\* lines 229-231 and 235
TileSucceeded ==
    /\ cpc = "query"
    /\ qpc = "returned"
    /\ LET elems == DictGet(result, "elements", <<>>) IN
         /\ all_elements' = all_elements \o elems
         /\ tileLog' = [tileLog EXCEPT ![Len(tileLog)] =
                          [idx |-> idx, outcome |-> "ok", elems |-> elems]]
    /\ tilePauses' = PauseAfter(tilePauses, "ok")
    /\ idx' = idx + 1
    /\ cpc' = "fetch"
    /\ QueryDropFrame
    /\ UNCHANGED <<bbox, tiles, failed_tiles, records, geoRequests, written>>
    /\ UNCHANGED <<cfgVars, mainVars, ddVars, pureVars, runVars>>

\* lines 232-235
TileFailed ==
    /\ cpc = "query"
    /\ qpc = "raised"
    /\ failed_tiles' = RecordFailure(failed_tiles, idx, tiles[idx + 1])
    /\ tileLog' = [tileLog EXCEPT ![Len(tileLog)] =
                     [idx |-> idx, outcome |-> "failed", elems |-> <<>>]]
    /\ tilePauses' = PauseAfter(tilePauses, "failed")
    /\ idx' = idx + 1
    /\ cpc' = "fetch"
    /\ QueryDropFrame
    /\ UNCHANGED <<bbox, tiles, all_elements, records, geoRequests, written>>
    /\ UNCHANGED <<cfgVars, mainVars, ddVars, pureVars, runVars>>

\* lines 237-240: the loop is over
Aggregate ==
    /\ cpc = "fetch"
    /\ idx = Len(tiles)
    /\ all_elements' = dedupe_elements(all_elements)
    /\ records' = ExtractAll(dedupe_elements(all_elements), city_name)
    /\ cpc' = "emit"
    /\ UNCHANGED <<bbox, tiles, idx, failed_tiles, geoRequests, tileLog, tilePauses, written>>
    /\ UNCHANGED <<cfgVars, mainVars, queryVars, ddVars, pureVars, runVars>>

\* what lines 241-250 write: [path, payload], and the state the call ends in
EmitCsvAlways(recs, elems, failed, safe) ==
    [end |-> "Done", path |-> OutPath(safe), payload |-> [rows |-> recs]]
EmitNoFailures(recs, elems, failed, safe) ==
    IF recs = <<>>
      THEN [end |-> "DoneEmpty", path |-> DebugPath(safe),
            payload |-> [elements |-> elems, failed_tiles |-> <<>>]]
      ELSE [end |-> "Done", path |-> OutPath(safe), payload |-> [rows |-> recs]]
Emit(recs, elems, failed, safe) ==
    IF recs = <<>>
      THEN [end |-> "DoneEmpty", path |-> DebugPath(safe),
            payload |-> [elements |-> elems, failed_tiles |-> failed]]
      ELSE [end |-> "Done", path |-> OutPath(safe), payload |-> [rows |-> recs]]

\* lines 241-250
EmitOutput ==
    /\ cpc = "emit"
    /\ LET e == Emit(records, all_elements, failed_tiles, safe_name) IN
         /\ files' = files \cup {e.path}
         /\ written' = Append(written, [path |-> e.path, payload |-> e.payload])
         /\ cpc' = e.end
    /\ UNCHANGED <<mpc, cities, ci, processed>>
    /\ UNCHANGED <<bbox, tiles, idx, all_elements, failed_tiles, records,
                   geoRequests, tileLog, tilePauses>>
    /\ UNCHANGED <<cfgVars, queryVars, ddVars, pureVars, runVars>>

\* open() / to_csv of lines 244 and 249 raising OSError: nothing is written
\* and the exception leaves process_city
EmitRaises ==
    /\ cpc = "emit"
    /\ cpc' = "Error"
    /\ UNCHANGED <<bbox, tiles, idx, all_elements, failed_tiles, records,
                   geoRequests, tileLog, tilePauses, written>>
    /\ UNCHANGED <<cfgVars, mainVars, queryVars, ddVars, pureVars, runVars>>

(***************************************************************************)
(* main                                                                    *)
(***************************************************************************)
\* the input file: absent, blank, or one of two lists (lines as written,
\* with surrounding blanks and empty lines)
CityQom == <<"Q", "o", "m">>
CityAz  == <<"A", "/", ":", "z">>
CitiesFiles ==
    { [exists |-> FALSE, lines |-> <<>>],
      [exists |-> TRUE,  lines |-> << <<" ">> >>],
      [exists |-> TRUE,  lines |-> << <<" ">> \o CityQom, <<"\n">>, CityAz \o <<"\n">> >>],
      [exists |-> TRUE,  lines |-> << CityQom, CityQom \o <<" ">> >>] }

\* line 253
LoadCities ==
    /\ mpc = "start"
    /\ LET r == load_cities(citiesFile) IN
         IF r.raised
           THEN mpc' = "crashed" /\ UNCHANGED cities
           ELSE mpc' = "loop" /\ cities' = r.cities
    /\ UNCHANGED <<ci, processed, files>>
    /\ UNCHANGED <<cfgVars, cityVars, queryVars, ddVars, pureVars, runVars>>

\* history of main line 258: a call that was not skipped replaces the entry
\* of its output name; `done` tells whether the name ever ended Done
NoLog == [last |-> "never", forced |-> FALSE, done |-> FALSE]
LogOf(log, safe) == IF safe \in DOMAIN log THEN log[safe] ELSE NoLog
LogEnd(log, safe, end, forced) ==
    IF end = "Skipped" THEN log
    ELSE (safe :> [last |-> end, forced |-> forced,
                   done |-> (end = "Done" \/ LogOf(log, safe).done)]) @@ log

\* what the try/except of lines 257-260 does with the way process_city ended
AfterCity(end) == "loop"

\* lines 259-262: process_city is over (returned or raised), sleep, next city
EndCity ==
    /\ mpc = "loop"
    /\ cpc \in Terminal
    /\ mpc' = AfterCity(cpc)
    /\ ci' = ci + 1
    /\ cpc' = "idle"
    /\ bbox' = NoBbox
    /\ tiles' = <<>>
    /\ idx' = 0
    /\ all_elements' = <<>>
    /\ failed_tiles' = <<>>
    /\ records' = <<>>
    /\ geoRequests' = <<>>
    /\ tileLog' = <<>>
    /\ tilePauses' = <<>>
    /\ written' = <<>>
    /\ regionLog' = LogEnd(regionLog, safe_name, cpc, FORCE_REWRITE)
    /\ UNCHANGED <<cities, processed, files, run>>
    /\ UNCHANGED <<cfgVars, queryVars, ddVars, pureVars>>

\* line 263
Finish ==
    /\ mpc = "loop"
    /\ cpc = "idle"
    /\ ci > Len(cities)
    /\ mpc' = "done"
    /\ UNCHANGED <<cities, ci, processed, files>>
    /\ UNCHANGED <<cfgVars, cityVars, queryVars, ddVars, pureVars, runVars>>

(***************************************************************************)
(* Specifications                                                          *)
(***************************************************************************)
DedupeIdle == dpc = "idle" /\ dd_in = <<>> /\ dd_out = <<>>

SplitIdle == sp_pc = "idle" /\ sp_in = <<>> /\ sp_out = <<>>

ExtractIdle == ex_pc = "idle" /\ ex_in = <<>> /\ ex_out = <<>>

FirstRun == run = 1 /\ regionLog = <<>>

MainIdle ==
    /\ mpc = "none"
    /\ cities = <<>>
    /\ ci = 1
    /\ processed = <<>>
    /\ files = {}

CfgDefault ==
    /\ TILE_NX = 1
    /\ TILE_NY = 1
    /\ FORCE_REWRITE = FALSE
    /\ citiesFile = [exists |-> FALSE, lines |-> <<>>]
    /\ served = Responses

\* a run of main()
Init ==
    /\ TILE_NX \in 1..MaxTiles
    /\ TILE_NY \in 1..MaxTiles
    /\ TILE_NX * TILE_NY <= MaxTiles
    /\ FORCE_REWRITE \in BOOLEAN
    /\ citiesFile \in CitiesFiles
    /\ served = Responses
    /\ mpc = "start"
    /\ cities = <<>>
    /\ ci = 1
    /\ processed = <<>>
    /\ files = {}
    /\ CityIdle
    /\ QueryIdle
    /\ DedupeIdle
    /\ SplitIdle
    /\ ExtractIdle
    /\ FirstRun

Next ==
    \/ LoadCities
    \/ BeginCity
    \/ Resolve
    \/ StartTile
    \/ AttemptSucceeds
    \/ AttemptHTTPError
    \/ AttemptRequestError
    \/ AllMirrorsFailed
    \/ TileSucceeded
    \/ TileFailed
    \/ Aggregate
    \/ EmitOutput
    \/ EmitRaises
    \/ EndCity
    \/ Finish

Spec == Init /\ [][Next]_vars

\* one call of query_overpass_with_mirrors on the tiles of a resolved region
QueryBodies ==
    { split_bbox(nominatim_bbox([raised |-> FALSE, j |-> <<Match1>>]).bbox, 2, 2)[k] : k \in 1..4 }

InitQuery ==
    /\ CfgDefault
    /\ MainIdle
    /\ CityIdle
    /\ DedupeIdle
    /\ SplitIdle
    /\ ExtractIdle
    /\ FirstRun
    /\ qpc = "running"
    /\ query_body \in QueryBodies
    /\ mirror = 1
    /\ attempt = 1
    /\ last_exc = NoExc
    /\ result = NoResult
    /\ cause = NoExc
    /\ reqCount = ZeroCounts
    /\ failCount = ZeroCounts
    /\ received = <<>>
    /\ sleeps = <<>>

NextQuery ==
    \/ AttemptSucceeds
    \/ AttemptHTTPError
    \/ AttemptRequestError
    \/ AllMirrorsFailed

SpecQuery == InitQuery /\ [][NextQuery]_vars

\* one call of dedupe_elements
RECURSIVE SeqsUpTo(_, _)
SeqsUpTo(S, n) ==
    IF n = 0 THEN {<<>>}
    ELSE LET shorter == SeqsUpTo(S, n - 1) IN
         shorter \cup {Append(q, x) : q \in shorter, x \in S}

InitDedupe ==
    /\ CfgDefault
    /\ MainIdle
    /\ CityIdle
    /\ QueryIdle
    /\ SplitIdle
    /\ ExtractIdle
    /\ FirstRun
    /\ dpc = "call"
    /\ dd_in \in SeqsUpTo(Elements, MaxLen)
    /\ dd_out = <<>>

\* lines 167-176
Dedupe ==
    /\ dpc = "call"
    /\ dd_out' = dedupe_elements(dd_in)
    /\ dpc' = "done"
    /\ UNCHANGED dd_in
    /\ UNCHANGED <<cfgVars, mainVars, cityVars, queryVars, pureVars, runVars>>

NextDedupe == Dedupe

SpecDedupe == InitDedupe /\ [][NextDedupe]_vars

\* one call of split_bbox: boxes as nominatim_bbox returns them and the unit
\* box, with every pair of dimensions from -1 to MaxDim
Boxes ==
    { nominatim_bbox([raised |-> FALSE, j |-> <<Match1>>]).bbox,
      nominatim_bbox([raised |-> FALSE, j |-> <<Match2>>]).bbox,
      << <<0, 1>>, <<0, 1>>, <<1, 1>>, <<1, 1>> >> }

InitSplit ==
    /\ CfgDefault
    /\ MainIdle
    /\ CityIdle
    /\ QueryIdle
    /\ DedupeIdle
    /\ ExtractIdle
    /\ FirstRun
    /\ sp_pc = "call"
    /\ sp_in \in [bbox : Boxes, nx : (-1)..MaxDim, ny : (-1)..MaxDim]
    /\ sp_out = <<>>

\* lines 119-131
Split ==
    /\ sp_pc = "call"
    /\ sp_out' = split_bbox_call(sp_in.bbox, sp_in.nx, sp_in.ny)
    /\ sp_pc' = "done"
    /\ UNCHANGED <<sp_in, ex_pc, ex_in, ex_out>>
    /\ UNCHANGED <<cfgVars, mainVars, cityVars, queryVars, ddVars, runVars>>

NextSplit == Split

SpecSplit == InitSplit /\ [][NextSplit]_vars

\* one call of extract_shop_record: every tag bag over the contact tags and
\* every tag bag over the address tags, each tag absent, empty or valued,
\* and an element without a tags entry
ContactKeys == {"name", "contact:phone", "phone", "telephone",
                "contact:email", "email", "website", "contact:website"}
AddressKeys == {"addr:street", "addr:housenumber", "addr:city", "addr:postcode",
                "addr:state", "addr:full"}
ValOf(k) == "<" \o k \o ">"
TagBags(keys) ==
    { [k \in present |-> IF k \in empty THEN "" ELSE ValOf(k)] :
        <<present, empty>> \in { pe \in (SUBSET keys) \X (SUBSET keys) : pe[2] \subseteq pe[1] } }
ExtractInputs ==
    { [type |-> "node", id |-> 555, tags |-> t] : t \in TagBags(ContactKeys) \cup TagBags(AddressKeys) }
      \cup {ElemC}

InitExtract ==
    /\ CfgDefault
    /\ MainIdle
    /\ CityIdle
    /\ QueryIdle
    /\ DedupeIdle
    /\ SplitIdle
    /\ FirstRun
    /\ ex_pc = "call"
    /\ ex_in \in [el : ExtractInputs, city : {CityQom}]
    /\ ex_out = <<>>

\* lines 178-199
Extract ==
    /\ ex_pc = "call"
    /\ ex_out' = extract_shop_record(ex_in.el, ex_in.city)
    /\ ex_pc' = "done"
    /\ UNCHANGED <<ex_in, sp_pc, sp_in, sp_out>>
    /\ UNCHANGED <<cfgVars, mainVars, cityVars, queryVars, ddVars, runVars>>

NextExtract == Extract

SpecExtract == InitExtract /\ [][NextExtract]_vars

\* a run of main() on one region split 2x2, the backend serving an empty
\* answer or one of the two copies of node 555
ScenarioResponses ==
    { [elements |-> <<>>], [elements |-> <<ElemA1>>], [elements |-> <<ElemA2>>] }

InitScenario ==
    /\ TILE_NX = 2
    /\ TILE_NY = 2
    /\ FORCE_REWRITE = FALSE
    /\ citiesFile = [exists |-> TRUE, lines |-> << CityQom >>]
    /\ served = ScenarioResponses
    /\ mpc = "start"
    /\ cities = <<>>
    /\ ci = 1
    /\ processed = <<>>
    /\ files = {}
    /\ CityIdle
    /\ QueryIdle
    /\ DedupeIdle
    /\ SplitIdle
    /\ ExtractIdle
    /\ FirstRun

NextScenario == Next

SpecScenario == InitScenario /\ [][NextScenario]_vars

\* successive runs of main() over the same output directory: the files
\* stay, FORCE_REWRITE (line 86) may be edited between two runs
ResumeFiles ==
    { [exists |-> TRUE, lines |-> << CityQom >>],
      [exists |-> TRUE, lines |-> << CityQom, CityQom \o <<" ">> >>] }

InitResume ==
    /\ TILE_NX = 1
    /\ TILE_NY = 1
    /\ FORCE_REWRITE \in BOOLEAN
    /\ citiesFile \in ResumeFiles
    /\ served = Responses
    /\ mpc = "start"
    /\ cities = <<>>
    /\ ci = 1
    /\ processed = <<>>
    /\ files = {}
    /\ CityIdle
    /\ QueryIdle
    /\ DedupeIdle
    /\ SplitIdle
    /\ ExtractIdle
    /\ FirstRun

\* line 265: the script is started again after main() returned
Rerun ==
    /\ mpc = "done"
    /\ run < MaxRuns
    /\ run' = run + 1
    /\ FORCE_REWRITE' \in BOOLEAN
    /\ mpc' = "start"
    /\ cities' = <<>>
    /\ ci' = 1
    /\ processed' = <<>>
    /\ UNCHANGED <<files, regionLog, TILE_NX, TILE_NY, citiesFile, served>>
    /\ UNCHANGED <<cityVars, queryVars, ddVars, pureVars>>

NextResume == Next \/ Rerun

SpecResume == InitResume /\ [][NextResume]_vars

(***************************************************************************)
(* Properties                                                              *)
(***************************************************************************)
QueryOver == qpc \in {"returned", "raised"}

\* C1: mirrors are contacted in list order: a mirror receives a request only
\* after its predecessor failed exactly MAX_RETRIES attempts; when mirror 1
\* fails every attempt and mirror 2 never fails, the call returns the
\* response of mirror 2, after MAX_RETRIES requests to mirror 1 and one to
\* mirror 2.
C1_MirrorsInFixedOrder ==
    /\ \A k \in 1..(NumMirrors - 1) :
         reqCount[k + 1] > 0 =>
           /\ reqCount[k] = MAX_RETRIES
           /\ failCount[k] = MAX_RETRIES
    /\ (QueryOver /\ failCount[1] = reqCount[1] /\ failCount[2] = 0) =>
         /\ qpc = "returned"
         /\ Len(received) = 1
         /\ received[1].mirror = 2
         /\ result = received[1].data
         /\ reqCount[1] = MAX_RETRIES
         /\ reqCount[2] = 1
         /\ \A k \in 3..NumMirrors : reqCount[k] = 0

C1_Witness ==
    /\ qpc = "returned"
    /\ failCount[1] = MAX_RETRIES
    /\ failCount[2] = 0
    /\ result = [elements |-> <<ElemB, ElemA2>>]

\* C2: a successful response ends the call at once with that response: no
\* request and no backoff sleep follows it, whichever mirror and attempt it
\* came from.
C2_SuccessShortCircuits ==
    received # <<>> =>
      /\ qpc = "returned"
      /\ Len(received) = 1
      /\ result = received[1].data
      /\ TotalRequests = TotalFailures + 1
      /\ Len(sleeps) = TotalFailures
      /\ reqCount[received[1].mirror] = received[1].attempt
      /\ \A k \in Mirrors : k > received[1].mirror => reqCount[k] = 0

C2_Witness ==
    /\ qpc = "returned"
    /\ received[1].mirror = 3
    /\ received[1].attempt = 2
    /\ TotalRequests = 2 * MAX_RETRIES + 2

\* C3: when every attempt on every mirror errors, exactly
\* |OVERPASS_MIRRORS| x MAX_RETRIES requests are made and the call raises
\* with the error of the last attempt as cause; it returns no result.
C3_AllMirrorsExhausted ==
    /\ (QueryOver /\ received = <<>>) =>
         /\ qpc = "raised"
         /\ result = NoResult
         /\ TotalRequests = NumMirrors * MAX_RETRIES
         /\ \A k \in Mirrors : reqCount[k] = MAX_RETRIES /\ failCount[k] = MAX_RETRIES
         /\ cause.kind \in {"HTTPError", "RequestException"}
         /\ cause.mirror = NumMirrors
         /\ cause.attempt = MAX_RETRIES
    /\ qpc = "raised" => received = <<>>

C3_Witness ==
    /\ qpc = "raised"
    /\ cause = [kind |-> "HTTPError", mirror |-> NumMirrors, attempt |-> MAX_RETRIES]
    /\ TotalRequests = NumMirrors * MAX_RETRIES

\* C4: backoff sleeps lie between attempts: the sleep after failed attempt a
\* (counted per mirror) lasts BACKOFF_BASE^a, and every sleep is followed by
\* a further attempt, so a finished call has slept fewer times than it has
\* sent requests.
C4_BackoffOnlyBetweenAttempts ==
    /\ \A i \in 1..Len(sleeps) : sleeps[i] = BACKOFF_BASE ^ (((i - 1) % MAX_RETRIES) + 1)
    /\ QueryOver => Len(sleeps) = TotalRequests - 1

\* C5: dedupe_elements returns no two elements with the same (kind, id); the
\* element kept for an identity is its first occurrence in the input, and
\* the kept elements stand in their input order.
SameIdentity(a, b) == a.type = b.type /\ a.id = b.id

FirstIndex(list, e) ==
    CHOOSE i \in 1..Len(list) :
      /\ SameIdentity(list[i], e)
      /\ \A j \in 1..(i - 1) : ~SameIdentity(list[j], e)

C5_DedupeKeepsFirst ==
    dpc = "done" =>
      /\ \A i, j \in 1..Len(dd_out) : i # j => ~SameIdentity(dd_out[i], dd_out[j])
      /\ \A i \in 1..Len(dd_in) : \E k \in 1..Len(dd_out) : SameIdentity(dd_out[k], dd_in[i])
      /\ \A k \in 1..Len(dd_out) :
           /\ \E i \in 1..Len(dd_in) : SameIdentity(dd_in[i], dd_out[k])
           /\ dd_out[k] = dd_in[FirstIndex(dd_in, dd_out[k])]
      /\ \A k, l \in 1..Len(dd_out) :
           k < l => FirstIndex(dd_in, dd_out[k]) < FirstIndex(dd_in, dd_out[l])

C5_Witness ==
    /\ dpc = "done"
    /\ dd_in = <<ElemA2, ElemB, ElemA1>>
    /\ dd_out = <<ElemA2, ElemB>>

\* C6: a failed tile does not abort the region: the tiles are fetched once
\* each in index order, and when the loop ends every tile index has either
\* contributed its elements or stands exactly once in failed_tiles, never
\* both and never neither; a failed tile contributes nothing.
RECURSIVE ConcatElems(_)
ConcatElems(log) ==
    IF log = <<>> THEN <<>> ELSE Head(log).elems \o ConcatElems(Tail(log))

FailureEntries(i) == {k \in 1..Len(failed_tiles) : failed_tiles[k].idx = i}

C6_TileFailureIsRecorded ==
    /\ \A k \in 1..Len(tileLog) : tileLog[k].idx = k - 1
    /\ cpc \in {"emit", "Done", "DoneEmpty", "Error"} => Len(tileLog) = Len(tiles)
    /\ (cpc = "fetch" /\ idx = Len(tiles)) =>
         /\ Len(tileLog) = Len(tiles)
         /\ \A k \in 1..Len(tileLog) :
              \/ /\ tileLog[k].outcome = "ok"
                 /\ FailureEntries(k - 1) = {}
              \/ /\ tileLog[k].outcome = "failed"
                 /\ tileLog[k].elems = <<>>
                 /\ Cardinality(FailureEntries(k - 1)) = 1
         /\ all_elements = ConcatElems(tileLog)
         /\ Len(failed_tiles) = Cardinality({k \in 1..Len(tileLog) : tileLog[k].outcome = "failed"})

C6_Witness ==
    /\ cpc = "fetch"
    /\ idx = Len(tiles)
    /\ Len(tiles) >= 3
    /\ tileLog[1].outcome = "failed"
    /\ tileLog[2].outcome = "ok"
    /\ tileLog[2].elems # <<>>
    /\ tileLog[3].outcome = "failed"

\* C7: when the lookup raises or finds no match the region ends Failed at
\* once: no tile query is sent, nothing is written, and main is still in
\* its loop, ready for the next region.
LookupFailed ==
    /\ geoRequests # <<>>
    /\ geoRequests[Len(geoRequests)] \in {"raised", "none"}

C7_ResolutionFailureEndsRegion ==
    /\ LookupFailed =>
         /\ cpc = "Failed"
         /\ mpc = "loop"
         /\ tiles = <<>>
         /\ tileLog = <<>>
         /\ qpc = "idle"
         /\ TotalRequests = 0
         /\ written = <<>>
         /\ Len(geoRequests) = 1
    /\ cpc = "Failed" => LookupFailed

C7_Witness ==
    /\ cpc = "Failed"
    /\ geoRequests = <<"none">>
    /\ ci = 1
    /\ Len(cities) = 2
    /\ files = {}

\* C8: no failure aborts the run: main never stops before the end of the
\* list, and at the end every region of the list has been processed once,
\* in list order.
IsPrefix(p, q) == Len(p) <= Len(q) /\ \A k \in 1..Len(p) : p[k] = q[k]

C8_RunNeverAborts ==
    /\ mpc # "crashed"
    /\ mpc = "loop" => IsPrefix(processed, cities)
    /\ mpc = "done" => processed = cities

\* C9: a region with no record ends Done-empty, having written the
\* diagnostic payload (elements and failed tiles) and no tabular file; a
\* region with a record ends Done, having written all its records to the
\* tabular file and no diagnostic payload.
C9_EmptyVersusDone ==
    cpc \in {"Done", "DoneEmpty", "Error"} =>
      IF written = <<>> THEN cpc = "Error"
      ELSE IF records = <<>>
        THEN /\ cpc = "DoneEmpty"
             /\ written = << [path |-> DebugPath(safe_name),
                              payload |-> [elements |-> all_elements,
                                           failed_tiles |-> failed_tiles]] >>
             /\ DebugPath(safe_name) \in files
        ELSE /\ cpc = "Done"
             /\ written = << [path |-> OutPath(safe_name),
                              payload |-> [rows |-> records]] >>
             /\ OutPath(safe_name) \in files

C9_Witness ==
    /\ cpc = "DoneEmpty"
    /\ Len(tiles) = 2
    /\ Len(failed_tiles) = 1
    /\ OutPath(safe_name) \notin files

\* C10: the diagnostic payload of an empty region tells "nothing found"
\* from "fetch failed": its failed-tile list is empty exactly when every
\* tile fetch succeeded, and otherwise names each failed tile.
C10_EmptyDistinguishesFailure ==
    cpc = "DoneEmpty" =>
      LET payload == written[1].payload IN
      /\ (payload.failed_tiles = <<>>) <=> (\A k \in 1..Len(tileLog) : tileLog[k].outcome = "ok")
      /\ \A k \in 1..Len(tileLog) :
           tileLog[k].outcome = "failed" <=>
             (\E f \in 1..Len(payload.failed_tiles) : payload.failed_tiles[f].idx = k - 1)

C10_Witness ==
    /\ cpc = "DoneEmpty"
    /\ Len(tiles) = 2
    /\ tileLog[1].outcome = "ok"
    /\ tileLog[2].outcome = "failed"


\* C11: a region whose output file exists is Skipped, unless FORCE_REWRITE is
\* set, before anything is done: no lookup, no tile query, no file written;
\* with the flag set or the file missing the region is processed.
C11_SkipBeforeProcessing ==
    /\ cpc = "Skipped" =>
         /\ ~FORCE_REWRITE
         /\ OutPath(safe_name) \in files
         /\ geoRequests = <<>>
         /\ tileLog = <<>>
         /\ qpc = "idle"
         /\ TotalRequests = 0
         /\ written = <<>>
    /\ (cpc \notin {"idle", "Skipped"} /\ written = <<>>) =>
         (FORCE_REWRITE \/ OutPath(safe_name) \notin files)

C11_Witness ==
    /\ cpc = "Skipped"
    /\ ci = 2
    /\ cities[1] = cities[2]

C11_WitnessForced ==
    /\ cpc = "fetch"
    /\ FORCE_REWRITE
    /\ OutPath(safe_name) \in files
    /\ written = <<>>


\* C12: for nx, ny >= 1 split_bbox returns nx*ny tiles in row-major order,
\* tile (i, j) spanning [south + i*lat_step, south + (i+1)*lat_step] x
\* [west + j*lon_step, west + (j+1)*lon_step]; the tiles cover the box
\* without gap and no two of them overlap in area.
RLeq(a, b) == a[1] * b[2] <= b[1] * a[2]

TileRowMajor(i, j) == sp_out.boxes[i * sp_in.nx + j + 1]

TilesOverlap(t, u) ==
    ~ \/ RLeq(t[3], u[1])
      \/ RLeq(u[3], t[1])
      \/ RLeq(t[4], u[2])
      \/ RLeq(u[4], t[2])

C12_SplitIsRowMajorPartition ==
    (sp_pc = "done" /\ sp_in.nx >= 1 /\ sp_in.ny >= 1) =>
      LET b  == sp_in.bbox
          nx == sp_in.nx
          ny == sp_in.ny
          height == RSub(b[3], b[1])
          width  == RSub(b[4], b[2]) IN
      /\ ~sp_out.raised
      /\ Len(sp_out.boxes) = nx * ny
      /\ \A i \in 0..(ny - 1) : \A j \in 0..(nx - 1) :
           LET t == TileRowMajor(i, j) IN
           \* (edge - south) * ny = i * (north - south), and so on
           /\ RMulInt(RSub(t[1], b[1]), ny) = RMulInt(height, i)
           /\ RMulInt(RSub(t[3], b[1]), ny) = RMulInt(height, i + 1)
           /\ RMulInt(RSub(t[2], b[2]), nx) = RMulInt(width, j)
           /\ RMulInt(RSub(t[4], b[2]), nx) = RMulInt(width, j + 1)
           \* no gap: neighbours share their edge, border tiles reach the box
           /\ IF i = 0 THEN t[1] = b[1] ELSE t[1] = TileRowMajor(i - 1, j)[3]
           /\ IF j = 0 THEN t[2] = b[2] ELSE t[2] = TileRowMajor(i, j - 1)[4]
           /\ i = ny - 1 => t[3] = b[3]
           /\ j = nx - 1 => t[4] = b[4]
      /\ \A k, l \in 1..Len(sp_out.boxes) :
           k # l => ~TilesOverlap(sp_out.boxes[k], sp_out.boxes[l])

C12_Witness ==
    /\ sp_pc = "done"
    /\ sp_in.nx = 3
    /\ sp_in.ny = 2
    /\ Len(sp_out.boxes) = 6
    /\ sp_in.bbox[1] = <<69, 2>>

\* C13: split_bbox fails whenever nx <= 0 or ny <= 0, and only then: it
\* never returns a tile list for invalid dimensions.
C13_InvalidDimensionsRejected ==
    sp_pc = "done" => (sp_out.raised <=> (sp_in.nx <= 0 \/ sp_in.ny <= 0))


\* C14: phone is the first non-empty of contact:phone, phone, telephone;
\* email the first non-empty of contact:email, email; website the first
\* non-empty of website, contact:website; name is the name tag; a field
\* with no candidate tag (or an element without tags) is the empty string,
\* and every field of the record is there.
InTags == IF "tags" \in DOMAIN ex_in.el THEN ex_in.el.tags ELSE <<>>
HasValue(k) == k \in DOMAIN InTags /\ InTags[k] # ""

C14_FirstNonEmptyWins ==
    ex_pc = "done" =>
      /\ DOMAIN ex_out = {"city", "osm_type", "osm_id", "name", "address",
                          "phone", "email", "website"}
      /\ ex_out.city = ex_in.city
      /\ ex_out.osm_type = ex_in.el.type
      /\ ex_out.osm_id = ex_in.el.id
      /\ ex_out.name = (IF "name" \in DOMAIN InTags THEN InTags["name"] ELSE "")
      /\ ex_out.phone =
           (IF HasValue("contact:phone") THEN InTags["contact:phone"]
            ELSE IF HasValue("phone") THEN InTags["phone"]
            ELSE IF HasValue("telephone") THEN InTags["telephone"]
            ELSE "")
      /\ ex_out.email =
           (IF HasValue("contact:email") THEN InTags["contact:email"]
            ELSE IF HasValue("email") THEN InTags["email"]
            ELSE "")
      /\ ex_out.website =
           (IF HasValue("website") THEN InTags["website"]
            ELSE IF HasValue("contact:website") THEN InTags["contact:website"]
            ELSE "")

C14_Witness ==
    /\ ex_pc = "done"
    /\ DOMAIN InTags = {"contact:phone", "phone", "telephone", "website", "contact:website"}
    /\ InTags["contact:phone"] = ""
    /\ HasValue("phone")
    /\ HasValue("telephone")
    /\ ~HasValue("website")
    /\ ex_out.phone = "<phone>"
    /\ ex_out.website = "<contact:website>"
    /\ ex_out.email = ""

\* C15: address is the ", "-join, in the order street, housenumber, city,
\* postcode, state, of those of the five tags that have a (non-empty)
\* value; addr:full is used only when none of the five has one, and the
\* address is the empty string when addr:full has none either.
RECURSIVE JoinedInOrder(_, _)
JoinedInOrder(keys, acc) ==
    IF keys = <<>> THEN acc
    ELSE JoinedInOrder(Tail(keys),
           IF ~HasValue(Head(keys)) THEN acc
           ELSE IF acc = "" THEN InTags[Head(keys)]
           ELSE acc \o ", " \o InTags[Head(keys)])

C15_AddressJoin ==
    ex_pc = "done" =>
      LET five == <<"addr:street", "addr:housenumber", "addr:city",
                    "addr:postcode", "addr:state">>
          anyOfFive == \E k \in 1..5 : HasValue(five[k]) IN
      ex_out.address =
        (IF anyOfFive THEN JoinedInOrder(five, "")
         ELSE IF HasValue("addr:full") THEN InTags["addr:full"]
         ELSE "")

C15_Witness ==
    /\ ex_pc = "done"
    /\ DOMAIN InTags = {"addr:street", "addr:housenumber", "addr:state", "addr:full"}
    /\ InTags["addr:housenumber"] = ""
    /\ HasValue("addr:full")
    /\ ex_out.address = "<addr:street>, <addr:state>"

C15_WitnessFull ==
    /\ ex_pc = "done"
    /\ DOMAIN InTags = {"addr:city", "addr:full"}
    /\ InTags["addr:city"] = ""
    /\ ex_out.address = "<addr:full>"


\* C16: one region split 2x2; tiles 1 and 3 each return one element of the
\* same identity, tile 2 fails on all mirrors, tile 4 returns nothing: then
\* process_city holds one unique element, one failed tile (tile 2, index 1),
\* and one record, built from tile 1's copy, and that record is the output.
ScenarioTiles ==
    /\ Len(tileLog) = 4
    /\ tileLog[1].outcome = "ok" /\ Len(tileLog[1].elems) = 1
    /\ tileLog[2].outcome = "failed"
    /\ tileLog[3].outcome = "ok" /\ Len(tileLog[3].elems) = 1
    /\ SameIdentity(tileLog[1].elems[1], tileLog[3].elems[1])
    /\ tileLog[4].outcome = "ok" /\ tileLog[4].elems = <<>>

C16_ScenarioTwoByTwo ==
    ScenarioTiles /\ cpc \in {"emit", "Done", "DoneEmpty", "Error"} =>
      /\ Len(all_elements) = 1
      /\ Len(failed_tiles) = 1
      /\ failed_tiles[1].idx = 1
      /\ failed_tiles[1].bbox = tiles[2]
      /\ records = << extract_shop_record(tileLog[1].elems[1], city_name) >>
      /\ cpc # "DoneEmpty"
      /\ cpc = "Done" =>
           written = << [path |-> OutPath(safe_name), payload |-> [rows |-> records]] >>

C16_Witness ==
    /\ ScenarioTiles
    /\ cpc = "Done"
    /\ tileLog[1].elems = <<ElemA1>>
    /\ tileLog[3].elems = <<ElemA2>>
    /\ Len(written) = 1
    /\ Len(written[1].payload.rows) = 1
    /\ written[1].payload.rows[1].name = "Bazar"


\* C17: tiles are fetched one after the other, in the order of the list:
\* requests are only sent for the last tile started, every tile started
\* before it has succeeded or failed, and each of those was followed by one
\* pause of SLEEP_BETWEEN_TILES, so a pause lies between any two
\* consecutive fetches whatever the outcome of the earlier one.
TileOver(k) == tileLog[k].outcome \in {"ok", "failed"}

C17_TilesSequentialWithPause ==
    /\ \A k \in 1..Len(tileLog) : tileLog[k].idx = k - 1
    /\ \A k \in 1..(Len(tileLog) - 1) : TileOver(k)
    /\ (qpc # "idle" \/ TotalRequests > 0) =>
         /\ cpc = "query"
         /\ tileLog # <<>>
         /\ ~TileOver(Len(tileLog))
    /\ (tileLog # <<>> /\ ~TileOver(Len(tileLog))) =>
         /\ cpc = "query"
         /\ Len(tilePauses) = Len(tileLog) - 1
    /\ (tileLog # <<>> /\ TileOver(Len(tileLog))) => Len(tilePauses) = Len(tileLog)
    /\ \A k \in 1..Len(tilePauses) : tilePauses[k] = SLEEP_BETWEEN_TILES

C17_Witness ==
    /\ Len(tileLog) = 3
    /\ tileLog[1].outcome = "failed"
    /\ tileLog[2].outcome = "ok"
    /\ tileLog[3].outcome = "fetching"
    /\ TotalRequests > 0
    /\ tilePauses = <<SLEEP_BETWEEN_TILES, SLEEP_BETWEEN_TILES>>


\* C18: a call of process_city that is not skipped sends exactly one
\* geocoding request: none before the resume check has passed, one from
\* then on, whatever the call ends in; when the lookup raised or found
\* nothing the call ends Failed at once, with that one request and no tile
\* fetched.  A skipped call sends none.
C18_SingleLookupNoRetry ==
    /\ cpc \in {"idle", "resolve", "Skipped"} => geoRequests = <<>>
    /\ cpc \in {"fetch", "query", "emit", "Failed", "DoneEmpty", "Done", "Error"} =>
         Len(geoRequests) = 1
    /\ cpc \in {"fetch", "query", "emit", "DoneEmpty", "Done"} => geoRequests = <<"ok">>
    /\ cpc = "Failed" =>
         /\ geoRequests[1] \in {"raised", "none"}
         /\ tileLog = <<>>

C18_Witness ==
    /\ cpc = "Failed"
    /\ geoRequests = <<"none">>
    /\ Len(processed) = 2

C18_WitnessRaised ==
    /\ cpc = "Failed"
    /\ geoRequests = <<"raised">>


\* C19 as stated: a call that ends Done-empty or Failed leaves no file at
\* the tabular output path, so the next call without the flag processes the
\* region again, and a region that ended Done is skipped by every later
\* call without the flag, with no request sent.
PrevCall == LogOf(regionLog, safe_name)
NoRequestSent == geoRequests = <<>> /\ tileLog = <<>> /\ TotalRequests = 0 /\ qpc = "idle"

C19_AsStated ==
    cpc # "idle" =>
      /\ cpc \in {"DoneEmpty", "Failed"} => OutPath(safe_name) \notin files
      /\ (~FORCE_REWRITE /\ PrevCall.last \in {"DoneEmpty", "Failed"}) => cpc # "Skipped"
      /\ (~FORCE_REWRITE /\ PrevCall.done) => (cpc = "Skipped" /\ NoRequestSent)

\* C19 amended: a call that ends Done-empty or Failed writes no tabular
\* file, so the file is at the tabular path exactly when some call for
\* that name ended Done; when the call ran without the flag, no file is
\* there afterwards and the next call without the flag processes the region
\* again (a lookup is sent); a region that ever ended Done is skipped by
\* every later call without the flag, with no request sent.
C19_ResumeAcrossRuns ==
    cpc # "idle" =>
      /\ OutPath(safe_name) \in files <=> (PrevCall.done \/ cpc = "Done")
      /\ cpc \in {"DoneEmpty", "Failed"} =>
           /\ \A k \in 1..Len(written) : written[k].path # OutPath(safe_name)
           /\ ~FORCE_REWRITE => OutPath(safe_name) \notin files
      /\ (~FORCE_REWRITE /\ PrevCall.last \in {"DoneEmpty", "Failed"} /\ ~PrevCall.forced) =>
           /\ cpc # "Skipped"
           /\ cpc # "resolve" => Len(geoRequests) = 1
      /\ (~FORCE_REWRITE /\ PrevCall.done) => (cpc = "Skipped" /\ NoRequestSent)

C19_Witness ==
    /\ run = 2
    /\ ~FORCE_REWRITE
    /\ cpc = "query"
    /\ PrevCall.last = "DoneEmpty"
    /\ DebugPath(safe_name) \in files
    /\ TotalRequests > 0

C19_WitnessSkipped ==
    /\ run = 3
    /\ ~FORCE_REWRITE
    /\ cpc = "Skipped"
    /\ PrevCall.done
    /\ PrevCall.last = "Failed"
    /\ PrevCall.forced


\* C20: every tabular file process_city writes has one row per distinct
\* (kind, id) among the elements the successful tiles returned, no two rows
\* with the same (osm_type, osm_id), and the rows stand in the order in
\* which their identities first occur in the tiles' answers, tile by tile.
Fetched == ConcatElems(tileLog)
RowKey(row) == <<row.osm_type, row.osm_id>>
FirstSeen(row) ==
    CHOOSE k \in 1..Len(Fetched) :
      /\ <<Fetched[k].type, Fetched[k].id>> = RowKey(row)
      /\ \A m \in 1..(k - 1) : <<Fetched[m].type, Fetched[m].id>> # RowKey(row)

C20_OutputRowsAreDistinctInOrder ==
    \A w \in 1..Len(written) :
      written[w].path.suffix = ".csv" =>
        LET rows == written[w].payload.rows IN
        /\ written[w].path = OutPath(safe_name)
        /\ Len(rows) = Cardinality({ <<Fetched[k].type, Fetched[k].id>> : k \in 1..Len(Fetched) })
        /\ Len(rows) > 0
        /\ \A i, j \in 1..Len(rows) : i # j => RowKey(rows[i]) # RowKey(rows[j])
        /\ \A i \in 1..Len(rows) :
             \E k \in 1..Len(Fetched) : <<Fetched[k].type, Fetched[k].id>> = RowKey(rows[i])
        /\ \A i, j \in 1..Len(rows) : i < j => FirstSeen(rows[i]) < FirstSeen(rows[j])

C20_Witness ==
    /\ cpc = "Done"
    /\ Len(tileLog) = 3
    /\ tileLog[1].elems = <<ElemA1>>
    /\ tileLog[2].outcome = "failed"
    /\ tileLog[3].elems = <<ElemB, ElemA2>>
    /\ Len(written) = 1
    /\ Len(written[1].payload.rows) = 2
    /\ written[1].payload.rows[1].osm_type = "node"
    /\ written[1].payload.rows[2].osm_type = "way"

====
